---- MODULE Spec2Model ----
(***************************************************************************)
(* Match scoring, feature vectors, trust levels and the recommendation     *)
(* endpoint of the dating backend (backend/events/ai_matching.py,          *)
(* backend/events/trust_verification.py, backend/profiles/views.py).       *)
(*                                                                         *)
(* Python floats are modelled as exact non-negative rationals              *)
(* [num, den] in lowest terms.  A date of birth is the number of days      *)
(* lived (0 = NULL), a timestamp is a number of minutes.                   *)
(***************************************************************************)
EXTENDS Integers, Sequences, FiniteSets, TLC

VARIABLES users, nOps, response, profiles, swipes, blocks, feature_vectors,
          stream, last_delivered_id, pending, failed,
          swipe_action, match_rows, requests

matchVars == <<users, nOps>>

rankVars == <<profiles, swipes, blocks, feature_vectors>>

eventVars == <<stream, last_delivered_id, pending, failed>>

swipeVars == <<swipe_action, match_rows, requests>>

vars == <<users, nOps, response, profiles, swipes, blocks, feature_vectors,
          stream, last_delivered_id, pending, failed,
          swipe_action, match_rows, requests>>

(***************************************************************************)
(* Exact rational arithmetic.                                              *)
(***************************************************************************)
RECURSIVE GCD(_, _)
GCD(a, b) == IF b = 0 THEN a ELSE GCD(b, a % b)

Rat(n, d) == LET g == GCD(n, d) IN [num |-> n \div g, den |-> d \div g]

RInt(n) == [num |-> n, den |-> 1]

RAdd(a, b) == Rat(a.num * b.den + b.num * a.den, a.den * b.den)

RMul(a, b) == Rat(a.num * b.num, a.den * b.den)

RLe(a, b) == a.num * b.den <= b.num * a.den

RLt(a, b) == a.num * b.den < b.num * a.den

RMin(a, b) == IF RLe(a, b) THEN a ELSE b

RMax(a, b) == IF RLe(a, b) THEN b ELSE a

\* abs(a - b)
RAbsDiff(a, b) ==
    LET x == a.num * b.den
        y == b.num * a.den
    IN Rat(IF x >= y THEN x - y ELSE y - x, a.den * b.den)

RECURSIVE SumSeq(_)
SumSeq(s) == IF s = <<>> THEN 0 ELSE Head(s) + SumSeq(Tail(s))

Zero == RInt(0)

One == RInt(1)

(***************************************************************************)
(* The database rows of one user that the feature vector reads.            *)
(* matches: a sequence of [is_active, has_conversation, messages], each    *)
(* message [mine, at] in created_at order.                                 *)
(***************************************************************************)
UserIds == {"u1", "u2"}

InterestNames == {"a", "b", "c"}

ValueNames == {"x", "y"}

NewUser ==
    [has_profile |-> FALSE, is_verified |-> FALSE, date_of_birth |-> 0,
     min_age |-> 18, max_age |-> 100, interests |-> {}, values |-> {},
     has_primary_photo |-> FALSE, has_bio |-> FALSE, has_location |-> FALSE,
     likes |-> 0, passes |-> 0, super_likes |-> 0, recent_swipes |-> 0,
     recent_messages |-> 0, matches |-> <<>>]

(***************************************************************************)
(* EnhancedFeatureVector (events/ai_matching.py).                          *)
(***************************************************************************)
DaysPerYear == 365

DefaultAge == 25

LatencyCap == 1440

DefaultLatency == 300

DeepConversation == 10

ActivityCap == 50

_get_demographics(user) ==
    IF ~user.has_profile
    THEN [age |-> DefaultAge]
    ELSE [age |-> IF user.date_of_birth # 0
                  THEN user.date_of_birth \div DaysPerYear
                  ELSE DefaultAge]

_get_preferences(user) ==
    IF ~user.has_profile
    THEN [age_range |-> <<18, 100>>]
    ELSE [age_range |-> <<user.min_age, user.max_age>>]

_get_interests(user) == IF ~user.has_profile THEN {} ELSE user.interests

_get_values(user) == IF ~user.has_profile THEN {} ELSE user.values

Conversations(user) ==
    LET idx == {i \in 1..Len(user.matches) : user.matches[i].has_conversation}
    IN [i \in idx |-> user.matches[i].messages]

\* variant: the elapsed minutes appended without the cap
RECURSIVE WalkMessages_uncapped(_, _, _)
WalkMessages_uncapped(msgs, prev_time, latencies) ==
    IF msgs = <<>> THEN latencies
    ELSE LET msg == Head(msgs)
         IN IF ~msg.mine
            THEN WalkMessages_uncapped(Tail(msgs), msg.at,
                     IF prev_time # 0
                     THEN Append(latencies, msg.at - prev_time)
                     ELSE latencies)
            ELSE WalkMessages_uncapped(Tail(msgs), prev_time, latencies)

\* The inner loop over one conversation: prev_time is assigned only inside the
\* branch taken for messages of the other party (0 = None).
RECURSIVE WalkMessages(_, _, _)
WalkMessages(msgs, prev_time, latencies) ==
    IF msgs = <<>> THEN latencies
    ELSE LET msg == Head(msgs)
         IN IF ~msg.mine
            THEN WalkMessages(Tail(msgs), msg.at,
                     IF prev_time # 0
                     THEN Append(latencies,
                              IF msg.at - prev_time < LatencyCap
                              THEN msg.at - prev_time ELSE LatencyCap)
                     ELSE latencies)
            ELSE WalkMessages(Tail(msgs), prev_time, latencies)

RECURSIVE LatenciesFrom(_, _)
LatenciesFrom(user, i) ==
    IF i > Len(user.matches) THEN <<>>
    ELSE (IF user.matches[i].has_conversation
          THEN WalkMessages(user.matches[i].messages, 0, <<>>)
          ELSE <<>>) \o LatenciesFrom(user, i + 1)

_calculate_reply_latencies(user) == LatenciesFrom(user, 1)

_calculate_chat_depth_score(user) ==
    LET convs == Conversations(user)
        deep == {i \in DOMAIN convs : Len(convs[i]) >= DeepConversation}
    IN IF DOMAIN convs = {} THEN Zero
       ELSE Rat(Cardinality(deep), Cardinality(DOMAIN convs))

_calculate_unmatch_rate(user) ==
    LET total_matches == Len(user.matches)
        expired == {i \in 1..Len(user.matches) : ~user.matches[i].is_active}
    IN IF total_matches = 0 THEN Zero
       ELSE Rat(Cardinality(expired), total_matches)

\* variant: the two increments exchanged
_calculate_trust_score_exchanged(user) ==
    LET base == Rat(5, 10)
        s1 == IF user.is_verified THEN RAdd(base, Rat(1, 10)) ELSE base
        s2 == IF user.has_profile /\ user.has_primary_photo
              THEN RAdd(s1, Rat(2, 10)) ELSE s1
    IN RMax(RMin(s2, One), Zero)

_calculate_trust_score(user) ==
    LET base == Rat(5, 10)
        s1 == IF user.is_verified THEN RAdd(base, Rat(2, 10)) ELSE base
        s2 == IF user.has_profile /\ user.has_primary_photo
              THEN RAdd(s1, Rat(1, 10)) ELSE s1
    IN RMax(RMin(s2, One), Zero)

\* Profile.calculate_completion_score: ten fields, four of which (gender,
\* looking_for, relationship_status, is_active) are always set.
calculate_completion_score(user) ==
    LET score == 4
                 + (IF user.has_bio THEN 1 ELSE 0)
                 + (IF user.date_of_birth # 0 THEN 1 ELSE 0)
                 + (IF user.has_location THEN 1 ELSE 0)
                 + (IF user.has_primary_photo THEN 1 ELSE 0)
                 + (IF user.interests # {} THEN 1 ELSE 0)
                 + (IF user.is_verified THEN 1 ELSE 0)
    IN (score * 100) \div 10

_calculate_engagement_score(user) ==
    LET activity_score ==
            RMin(Rat(user.recent_swipes + user.recent_messages, ActivityCap), One)
        s1 == RMul(activity_score, Rat(7, 10))
        s2 == IF user.has_profile
              THEN RAdd(s1, RMul(Rat(calculate_completion_score(user), 100),
                                 Rat(3, 10)))
              ELSE s1
    IN RMin(s2, One)

like_rate_swapped(total_likes, total_passes) ==
    IF total_passes > 0 THEN Rat(total_likes, total_passes) ELSE Zero

\* "like_rate": total_likes / (total_likes + total_passes) if ... > 0 else 0
like_rate(total_likes, total_passes) ==
    IF total_likes + total_passes > 0
    THEN Rat(total_likes, total_likes + total_passes)
    ELSE Zero

_get_behavioral_signals(user) ==
    LET reply_latencies == _calculate_reply_latencies(user)
        total_likes == user.likes
        total_passes == user.passes
    IN [reply_latency_avg |->
            IF reply_latencies # <<>>
            THEN Rat(SumSeq(reply_latencies), Len(reply_latencies))
            ELSE RInt(DefaultLatency),
        chat_depth_score |-> _calculate_chat_depth_score(user),
        unmatch_rate |-> _calculate_unmatch_rate(user),
        total_likes |-> total_likes,
        total_passes |-> total_passes,
        total_matches |->
            Cardinality({i \in 1..Len(user.matches) : user.matches[i].is_active}),
        like_rate |-> like_rate(total_likes, total_passes)]

_build_feature_vector(user) ==
    [demographics |-> _get_demographics(user),
     preferences |-> _get_preferences(user),
     interests |-> _get_interests(user),
     values |-> _get_values(user),
     behavioral_signals |-> _get_behavioral_signals(user),
     trust_score |-> _calculate_trust_score(user),
     engagement_score |-> _calculate_engagement_score(user)]

\* __init__: self.profile = user.profile raises for a user without a profile row
EnhancedFeatureVector(user) ==
    IF ~user.has_profile
    THEN [raised |-> TRUE]
    ELSE [raised |-> FALSE, vector |-> _build_feature_vector(user)]

(***************************************************************************)
(* ExplainableMatcher (events/ai_matching.py).  A reason is the string     *)
(* with the set of names an f-string joins into it.                        *)
(***************************************************************************)
Reason(text) == [text |-> text, items |-> {}]

ReasonWith(text, items) == [text |-> text, items |-> items]

Components ==
    <<"preference_alignment", "interest_similarity", "values_compatibility",
      "behavioral_compatibility", "trust_safety_score", "activity_recency">>

weights_swapped ==
    [preference_alignment |-> Rat(20, 100),
     interest_similarity |-> Rat(25, 100),
     values_compatibility |-> Rat(20, 100),
     behavioral_compatibility |-> Rat(15, 100),
     trust_safety_score |-> Rat(10, 100),
     activity_recency |-> Rat(10, 100)]

weights ==
    [preference_alignment |-> Rat(25, 100),
     interest_similarity |-> Rat(20, 100),
     values_compatibility |-> Rat(20, 100),
     behavioral_compatibility |-> Rat(15, 100),
     trust_safety_score |-> Rat(10, 100),
     activity_recency |-> Rat(10, 100)]

_calculate_preference_alignment_onesided(v1, v2) ==
    LET user2_age == v2.demographics.age
        user1_pref == v1.preferences.age_range
        age_match_1 == user1_pref[1] <= user2_age /\ user2_age <= user1_pref[2]
    IN [score |-> IF age_match_1 THEN One ELSE Rat(4, 10),
        reasons |-> IF age_match_1
                    THEN <<Reason("Age preferences are mutually compatible")>>
                    ELSE <<Reason("Age preferences don't align")>>]

\* variant: without the flat distance placeholder
_calculate_preference_alignment_no_placeholder(v1, v2) ==
    LET user1_age == v1.demographics.age
        user2_age == v2.demographics.age
        user1_pref == v1.preferences.age_range
        user2_pref == v2.preferences.age_range
        age_match_1 == user1_pref[1] <= user2_age /\ user2_age <= user1_pref[2]
        age_match_2 == user2_pref[1] <= user1_age /\ user1_age <= user2_pref[2]
        aged == IF age_match_1 /\ age_match_2
                THEN [score |-> Rat(6, 10),
                      reasons |-> <<Reason("Age preferences are mutually compatible")>>]
                ELSE IF age_match_1 \/ age_match_2
                THEN [score |-> Rat(3, 10),
                      reasons |-> <<Reason("Age preferences partially align")>>]
                ELSE [score |-> Zero,
                      reasons |-> <<Reason("Age preferences don't align")>>]
    IN [score |-> RMin(aged.score, One),
        reasons |-> aged.reasons]

_calculate_preference_alignment(v1, v2) ==
    LET user1_age == v1.demographics.age
        user2_age == v2.demographics.age
        user1_pref == v1.preferences.age_range
        user2_pref == v2.preferences.age_range
        age_match_1 == user1_pref[1] <= user2_age /\ user2_age <= user1_pref[2]
        age_match_2 == user2_pref[1] <= user1_age /\ user1_age <= user2_pref[2]
        aged == IF age_match_1 /\ age_match_2
                THEN [score |-> Rat(6, 10),
                      reasons |-> <<Reason("Age preferences are mutually compatible")>>]
                ELSE IF age_match_1 \/ age_match_2
                THEN [score |-> Rat(3, 10),
                      reasons |-> <<Reason("Age preferences partially align")>>]
                ELSE [score |-> Zero,
                      reasons |-> <<Reason("Age preferences don't align")>>]
    IN [score |-> RMin(RAdd(aged.score, Rat(4, 10)), One),
        reasons |-> aged.reasons]

\* variant: the overlap measured against the larger set, as for values
_calculate_interest_similarity_overlap(v1, v2) ==
    LET interests1 == v1.interests
        interests2 == v2.interests
        intersection == interests1 \cap interests2
        larger == IF Cardinality(interests1) >= Cardinality(interests2)
                  THEN Cardinality(interests1) ELSE Cardinality(interests2)
    IN IF interests1 = {} \/ interests2 = {}
       THEN [score |-> Rat(5, 10),
             reasons |-> <<Reason("Limited interest data available")>>]
       ELSE [score |-> Rat(Cardinality(intersection), larger),
             reasons |-> IF intersection # {}
                         THEN <<ReasonWith("Shared interests: ", intersection)>>
                         ELSE <<Reason("No shared interests found")>>]

_calculate_interest_similarity(v1, v2) ==
    LET interests1 == v1.interests
        interests2 == v2.interests
        intersection == interests1 \cap interests2
        union == interests1 \cup interests2
    IN IF interests1 = {} \/ interests2 = {}
       THEN [score |-> Rat(5, 10),
             reasons |-> <<Reason("Limited interest data available")>>]
       ELSE [score |-> IF union # {}
                       THEN Rat(Cardinality(intersection), Cardinality(union))
                       ELSE Zero,
             reasons |-> IF intersection # {}
                         THEN <<ReasonWith("Shared interests: ", intersection)>>
                         ELSE <<Reason("No shared interests found")>>]

\* variant: the overlap measured against the smaller set
_calculate_values_compatibility_smaller(v1, v2) ==
    LET values1 == v1.values
        values2 == v2.values
        intersection == values1 \cap values2
        smaller == IF Cardinality(values1) <= Cardinality(values2)
                   THEN Cardinality(values1) ELSE Cardinality(values2)
    IN IF values1 = {} \/ values2 = {}
       THEN [score |-> Rat(5, 10),
             reasons |-> <<Reason("Limited values data available")>>]
       ELSE [score |-> Rat(Cardinality(intersection), smaller),
             reasons |-> IF intersection # {}
                         THEN <<ReasonWith("Shared values: ", intersection)>>
                         ELSE <<Reason("Different value systems")>>]

_calculate_values_compatibility(v1, v2) ==
    LET values1 == v1.values
        values2 == v2.values
        intersection == values1 \cap values2
        larger == IF Cardinality(values1) >= Cardinality(values2)
                  THEN Cardinality(values1) ELSE Cardinality(values2)
    IN IF values1 = {} \/ values2 = {}
       THEN [score |-> Rat(5, 10),
             reasons |-> <<Reason("Limited values data available")>>]
       ELSE [score |-> Rat(Cardinality(intersection), larger),
             reasons |-> IF intersection # {}
                         THEN <<ReasonWith("Shared values: ", intersection)>>
                         ELSE <<Reason("Different value systems")>>]

\* variant: the two factors added and not averaged
_calculate_behavioral_compatibility_sum(v1, v2) ==
    LET b1 == v1.behavioral_signals
        b2 == v2.behavioral_signals
        latency_diff == RAbsDiff(b1.reply_latency_avg, b2.reply_latency_avg)
        close_latency == RLt(latency_diff, RInt(60))
        latency_score == IF close_latency THEN Rat(8, 10) ELSE Rat(4, 10)
        engagement_diff == RAbsDiff(b1.like_rate, b2.like_rate)
        close_engagement == RLt(engagement_diff, Rat(2, 10))
        engagement_score == IF close_engagement THEN Rat(8, 10) ELSE Rat(4, 10)
    IN [score |-> RAdd(latency_score, engagement_score),
        reasons |->
            <<IF close_latency
              THEN Reason("Similar communication response times")
              ELSE Reason("Different communication paces"),
              IF close_engagement
              THEN Reason("Similar engagement patterns")
              ELSE Reason("Different engagement levels")>>]

_calculate_behavioral_compatibility(v1, v2) ==
    LET b1 == v1.behavioral_signals
        b2 == v2.behavioral_signals
        latency_diff == RAbsDiff(b1.reply_latency_avg, b2.reply_latency_avg)
        close_latency == RLt(latency_diff, RInt(60))
        latency_score == IF close_latency THEN Rat(8, 10) ELSE Rat(4, 10)
        engagement_diff == RAbsDiff(b1.like_rate, b2.like_rate)
        close_engagement == RLt(engagement_diff, Rat(2, 10))
        engagement_score == IF close_engagement THEN Rat(8, 10) ELSE Rat(4, 10)
    IN [score |-> RMul(RAdd(latency_score, engagement_score), Rat(1, 2)),
        reasons |->
            <<IF close_latency
              THEN Reason("Similar communication response times")
              ELSE Reason("Different communication paces"),
              IF close_engagement
              THEN Reason("Similar engagement patterns")
              ELSE Reason("Different engagement levels")>>]

\* variant: "high" from 0.8 inclusive
_calculate_trust_safety_score_inclusive(v1, v2) ==
    LET combined_trust == RMul(RAdd(v1.trust_score, v2.trust_score), Rat(1, 2))
    IN [score |-> combined_trust,
        reasons |->
            IF RLe(Rat(8, 10), combined_trust)
            THEN <<Reason("Both users have high trust scores")>>
            ELSE IF RLt(Rat(6, 10), combined_trust)
            THEN <<Reason("Both users have good trust scores")>>
            ELSE <<Reason("Trust verification recommended")>>]

_calculate_trust_safety_score(v1, v2) ==
    LET combined_trust == RMul(RAdd(v1.trust_score, v2.trust_score), Rat(1, 2))
    IN [score |-> combined_trust,
        reasons |->
            IF RLt(Rat(8, 10), combined_trust)
            THEN <<Reason("Both users have high trust scores")>>
            ELSE IF RLt(Rat(6, 10), combined_trust)
            THEN <<Reason("Both users have good trust scores")>>
            ELSE <<Reason("Trust verification recommended")>>]

_calculate_activity_recency(v1, v2) ==
    [score |-> Rat(7, 10), reasons |-> <<Reason("Both users are actively engaged")>>]

\* The scores dict built by calculate_match_score, with each component's reasons.
ComponentResults(v1, v2) ==
    [preference_alignment |-> _calculate_preference_alignment(v1, v2),
     interest_similarity |-> _calculate_interest_similarity(v1, v2),
     values_compatibility |-> _calculate_values_compatibility(v1, v2),
     behavioral_compatibility |-> _calculate_behavioral_compatibility(v1, v2),
     trust_safety_score |-> _calculate_trust_safety_score(v1, v2),
     activity_recency |-> _calculate_activity_recency(v1, v2)]

RECURSIVE WeightedSum(_, _)
WeightedSum(scores, i) ==
    IF i > Len(Components) THEN Zero
    ELSE RAdd(RMul(scores[Components[i]].score, weights[Components[i]]),
              WeightedSum(scores, i + 1))

RECURSIVE ExtendReasons_skip(_, _)
ExtendReasons_skip(scores, i) ==
    IF i > Len(Components) THEN <<>>
    ELSE (IF Components[i] = "trust_safety_score" THEN <<>>
          ELSE scores[Components[i]].reasons) \o ExtendReasons_skip(scores, i + 1)

RECURSIVE ExtendReasons(_, _)
ExtendReasons(scores, i) ==
    IF i > Len(Components) THEN <<>>
    ELSE scores[Components[i]].reasons \o ExtendReasons(scores, i + 1)

\* EnhancedFeatureVector(user) reads user.profile, which raises for a user
\* without a profile row; otherwise (final_score, reasons) is returned.
calculate_match_score(user1, user2) ==
    IF EnhancedFeatureVector(user1).raised \/ EnhancedFeatureVector(user2).raised
    THEN [raised |-> TRUE]
    ELSE LET vector1 == EnhancedFeatureVector(user1).vector
             vector2 == EnhancedFeatureVector(user2).vector
             scores == ComponentResults(vector1, vector2)
         IN [raised |-> FALSE,
             final_score |-> WeightedSum(scores, 1),
             reasons |-> ExtendReasons(scores, 1)]

(***************************************************************************)
(* TrustVerificationSystem (events/trust_verification.py; ai_matching.py   *)
(* holds a second copy with shorter capability names).                     *)
(***************************************************************************)
max_trust_level == 4

TrustLevelIds == 0..4

TRUST_LEVELS ==
    [l \in TrustLevelIds |->
        CASE l = 0 -> [requirements |-> <<>>,
                       capabilities |-> <<"browse_profiles">>]
          [] l = 1 -> [requirements |-> <<"email_verified">>,
                       capabilities |-> <<"browse_profiles", "send_messages">>]
          [] l = 2 -> [requirements |-> <<"email_verified", "photo_verified">>,
                       capabilities |->
                           <<"browse_profiles", "send_messages", "video_chat">>]
          [] l = 3 -> [requirements |->
                           <<"email_verified", "photo_verified", "id_verified">>,
                       capabilities |->
                           <<"browse_profiles", "send_messages", "video_chat",
                             "boost_priority">>]
          [] OTHER -> [requirements |->
                           <<"email_verified", "photo_verified", "id_verified",
                             "behavioral_trust">>,
                       capabilities |->
                           <<"browse_profiles", "send_messages", "video_chat",
                             "boost_priority", "featured_placement">>]]

MATCHING_TRUST_LEVELS ==
    [l \in TrustLevelIds |->
        CASE l = 0 -> [requirements |-> <<>>, capabilities |-> <<"browse">>]
          [] l = 1 -> [requirements |-> <<"email_verified">>,
                       capabilities |-> <<"browse", "chat">>]
          [] l = 2 -> [requirements |-> <<"email_verified", "photo_verified">>,
                       capabilities |-> <<"browse", "chat", "video">>]
          [] l = 3 -> [requirements |->
                           <<"email_verified", "photo_verified", "id_verified">>,
                       capabilities |->
                           <<"browse", "chat", "video", "boost_priority">>]
          [] OTHER -> [requirements |->
                           <<"email_verified", "photo_verified", "id_verified",
                             "behavioral_trust">>,
                       capabilities |->
                           <<"browse", "chat", "video", "boost_priority",
                             "featured">>]]

Range(seq) == {seq[i] : i \in 1..Len(seq)}

Features == UNION {Range(TRUST_LEVELS[l].capabilities) : l \in TrustLevelIds}

assess_trust_level_additive(user) ==
    IF ~user.has_profile
    THEN [raised |-> TRUE]
    ELSE [raised |-> FALSE,
          level |-> (IF user.is_verified THEN 1 ELSE 0)
                    + (IF user.has_primary_photo THEN 2 ELSE 0)]

assess_trust_level_overwrite(user) ==
    IF ~user.has_profile
    THEN [raised |-> TRUE]
    ELSE [raised |-> FALSE,
          level |-> IF user.is_verified THEN 1
                    ELSE IF user.has_primary_photo THEN 2 ELSE 0]

\* level after the two checks of assess_trust_level; user.profile raises for
\* a user without a profile row.
assess_trust_level(user) ==
    IF ~user.has_profile
    THEN [raised |-> TRUE]
    ELSE LET l1 == IF user.is_verified THEN 1 ELSE 0
             l2 == IF user.has_primary_photo THEN (IF l1 > 2 THEN l1 ELSE 2) ELSE l1
         IN [raised |-> FALSE,
             level |-> IF l2 < max_trust_level THEN l2 ELSE max_trust_level]

can_access_feature(user, feature) ==
    LET trust_level == assess_trust_level(user)
    IN IF trust_level.raised
       THEN [raised |-> TRUE]
       ELSE [raised |-> FALSE,
             allowed |-> feature \in Range(TRUST_LEVELS[trust_level.level].capabilities)]

(***************************************************************************)
(* The request handlers that write the rows read above.  Swipes, matches   *)
(* and messages are with users outside UserIds.                            *)
(***************************************************************************)
MaxOps == 3

BirthDates == {10950, 11680, 16425}

AgeRanges == {<<25, 35>>, <<28, 40>>}

MessageGaps == {10, 2000}

SwipeActions == {"like", "pass", "super_like"}

NoResponse == [op |-> "none"]

ProfiledUser == [NewUser EXCEPT !.has_profile = TRUE]

\* ProfileSerializer.create with the required fields only
CreateProfile(u) ==
    /\ nOps < MaxOps
    /\ ~users[u].has_profile
    /\ users' = [users EXCEPT ![u].has_profile = TRUE]
    /\ nOps' = nOps + 1
    /\ response' = NoResponse
    /\ UNCHANGED <<rankVars, eventVars, swipeVars>>

\* ProfileSerializer.update: a PATCH of the age fields, of the interests
\* (replaced as a whole), of the values, or of the bio
UpdateProfile(u) ==
    /\ nOps < MaxOps
    /\ users[u].has_profile
    /\ \/ \E dob \in BirthDates, r \in AgeRanges :
             users' = [users EXCEPT ![u].date_of_birth = dob,
                                    ![u].min_age = r[1], ![u].max_age = r[2]]
       \/ \E S \in SUBSET InterestNames :
             users' = [users EXCEPT ![u].interests = S]
       \/ \E V \in SUBSET ValueNames :
             users' = [users EXCEPT ![u].values = V]
       \/ users' = [users EXCEPT ![u].has_bio = TRUE]
    /\ nOps' = nOps + 1
    /\ response' = NoResponse
    /\ UNCHANGED <<rankVars, eventVars, swipeVars>>

\* email_verify_confirm, or approve_verification(user_id, 'email', ...)
VerifyEmail(u) ==
    /\ nOps < MaxOps
    /\ ~users[u].is_verified
    /\ users' = [users EXCEPT ![u].is_verified = TRUE]
    /\ nOps' = nOps + 1
    /\ response' = NoResponse
    /\ UNCHANGED <<rankVars, eventVars, swipeVars>>

\* PhotoListCreateView.create followed by set_primary_photo
UploadPrimaryPhoto(u) ==
    /\ nOps < MaxOps
    /\ users[u].has_profile
    /\ ~users[u].has_primary_photo
    /\ users' = [users EXCEPT ![u].has_primary_photo = TRUE]
    /\ nOps' = nOps + 1
    /\ response' = NoResponse
    /\ UNCHANGED <<rankVars, eventVars, swipeVars>>

\* SwipeCreateView.create on a user not swiped before
Swipe(u, action) ==
    /\ nOps < MaxOps
    /\ users' = [users EXCEPT
                    ![u].likes = @ + (IF action = "like" THEN 1 ELSE 0),
                    ![u].passes = @ + (IF action = "pass" THEN 1 ELSE 0),
                    ![u].super_likes = @ + (IF action = "super_like" THEN 1 ELSE 0),
                    ![u].recent_swipes = @ + 1]
    /\ nOps' = nOps + 1
    /\ response' = NoResponse
    /\ UNCHANGED <<rankVars, eventVars, swipeVars>>

\* Match.objects.create in SwipeCreateView.create (the like was mutual)
NewMatch(u) ==
    /\ nOps < MaxOps
    /\ users' = [users EXCEPT ![u].matches =
                    Append(@, [is_active |-> TRUE, has_conversation |-> FALSE,
                               messages |-> <<>>])]
    /\ nOps' = nOps + 1
    /\ response' = NoResponse
    /\ UNCHANGED <<rankVars, eventVars, swipeVars>>

\* unmatch, or BlockCreateView.perform_create deactivating the match
Unmatch(u, i) ==
    /\ nOps < MaxOps
    /\ i \in 1..Len(users[u].matches)
    /\ users[u].matches[i].is_active
    /\ users' = [users EXCEPT ![u].matches[i].is_active = FALSE]
    /\ nOps' = nOps + 1
    /\ response' = NoResponse
    /\ UNCHANGED <<rankVars, eventVars, swipeVars>>

\* create_conversation (get_or_create) and MessageListCreateView.perform_create,
\* by the user (mine) or by the other party, gap minutes after the last message
Message(u, i, mine, gap) ==
    /\ nOps < MaxOps
    /\ i \in 1..Len(users[u].matches)
    /\ LET msgs == users[u].matches[i].messages
           last == IF msgs = <<>> THEN 0 ELSE msgs[Len(msgs)].at
       IN users' = [users EXCEPT
                       ![u].matches[i].has_conversation = TRUE,
                       ![u].matches[i].messages =
                           Append(@, [mine |-> mine, at |-> last + gap]),
                       ![u].recent_messages = @ + (IF mine THEN 1 ELSE 0)]
    /\ nOps' = nOps + 1
    /\ response' = NoResponse
    /\ UNCHANGED <<rankVars, eventVars, swipeVars>>

\* explainable_matcher.calculate_match_score(user1, user2)
CalculateMatchScore(u, v) ==
    /\ u # v
    /\ response' = [op |-> "calculate_match_score", user1 |-> u, user2 |-> v,
                    result |-> calculate_match_score(users[u], users[v])]
    /\ UNCHANGED <<matchVars, rankVars, eventVars, swipeVars>>

\* PhotoDetailView (DELETE) of the primary photo
DeletePrimaryPhoto(u) ==
    /\ nOps < MaxOps
    /\ users[u].has_profile
    /\ users[u].has_primary_photo
    /\ users' = [users EXCEPT ![u].has_primary_photo = FALSE]
    /\ nOps' = nOps + 1
    /\ response' = NoResponse
    /\ UNCHANGED <<rankVars, eventVars, swipeVars>>

\* trust_system.assess_trust_level(user)
AssessTrustLevel(u) ==
    /\ response' = [op |-> "assess_trust_level", user |-> u,
                    result |-> assess_trust_level(users[u])]
    /\ UNCHANGED <<matchVars, rankVars, eventVars, swipeVars>>

\* trust_system.can_access_feature(user, feature)
CanAccessFeature(u, feature) ==
    /\ response' = [op |-> "can_access_feature", user |-> u, feature |-> feature,
                    result |-> can_access_feature(users[u], feature)]
    /\ UNCHANGED <<matchVars, rankVars, eventVars, swipeVars>>

\* feature_vector_builder(user)
BuildFeatureVector(u) ==
    /\ response' = [op |-> "build_feature_vector", user |-> u,
                    result |-> EnhancedFeatureVector(users[u])]
    /\ UNCHANGED <<matchVars, rankVars, eventVars, swipeVars>>

(***************************************************************************)
(* Recommendations: the profile, swipe, block and stored-vector tables      *)
(* read by profile_recommendations.  Every sample profile is active, of an *)
(* age inside the requester's range, so the age filter keeps every         *)
(* profile.  boost_expiry 0 stands for NULL, other values are minutes.     *)
(***************************************************************************)
Requester == "me"

Candidates == {"c1", "c2", "c3"}

Members == {Requester} \cup Candidates

\* timezone.now()
now == 100

BoostExpiries == {0, 70}

BoostDurations == {30}

TopN == 10

SampleInterests ==
    [m \in Members |->
        CASE m = "me" -> {"a", "b"}
          [] m = "c1" -> {"a"}
          [] m = "c2" -> {"a", "b"}
          [] OTHER -> {}]

\* a JSON value of a stored vector: a number, or a dict, list or string
Num(n) == [number |-> n]

Obj(kind) == [object |-> kind]

IsNumber(value) == "number" \in DOMAIN value

FlatVector(a, b, c, d) ==
    [feature_0 |-> Num(a), feature_1 |-> Num(b), feature_2 |-> Num(c), feature_3 |-> Num(d)]

\* stored vectors in the layout of update_user_feature_vector
SampleVectors ==
    [m \in Members |->
        CASE m = "me" -> FlatVector(1, 0, 0, 0)
          [] m = "c1" -> FlatVector(9, 3, 3, 1)
          [] OTHER -> FlatVector(2, 4, 2, 1)]

\* the layout AIService._update_user_features stores: the dict built by
\* EnhancedFeatureVector (the two float entries are written as 0 here; no
\* arithmetic reaches them)
NestedVector ==
    [demographics |-> Obj("dict"), preferences |-> Obj("dict"),
     interests |-> Obj("list"), values |-> Obj("list"),
     behavioral_signals |-> Obj("dict"), trust_score |-> Num(0),
     engagement_score |-> Num(0), last_updated |-> Obj("str")]

NoRow == [exists |-> FALSE]

Row(fv) == [exists |-> TRUE, feature_vector |-> fv]

\* a nullable column: <<>> is NULL, <<x>> holds x
None == <<>>

Some(x) == <<x>>

DefaultMaxDistance == 50

\* the location columns of a profile whose place was never geocoded
Unlocated ==
    [latitude |-> None, longitude |-> None, country |-> "",
     max_distance |-> DefaultMaxDistance, is_passport_enabled |-> FALSE,
     passport_latitude |-> None, passport_longitude |-> None]

DefaultProfile(m) ==
    [has_profile |-> m # Requester, is_hidden |-> FALSE, boost_expiry |-> 0,
     interests |-> {}] @@ Unlocated

\* the Match rows between two users, in either order
Between(match, a, b) ==
    \/ match.user1 = a /\ match.user2 = b
    \/ match.user1 = b /\ match.user2 = a

MaxRequests == 3

MaxInFlight == 2

Idle == [pc |-> "idle"]

\* no Swipe action recorded, no Match row, no swipe request received
SwipeIdle ==
    /\ swipe_action = [pair \in Members \X Members |-> "none"]
    /\ match_rows = <<>>
    /\ requests = [r \in 1..MaxRequests |-> Idle]

EventIdle ==
    /\ stream = <<>>
    /\ last_delivered_id = 0
    /\ pending = {}
    /\ failed = {}

RankIdle ==
    /\ profiles = [m \in Members |-> DefaultProfile(m)]
    /\ swipes = {}
    /\ blocks = {}
    /\ feature_vectors = [m \in Members |-> NoRow]

RECURSIVE DotOver(_, _, _)
DotOver(v1, v2, keys) ==
    IF keys = {} THEN 0
    ELSE LET k == CHOOSE x \in keys : TRUE
         IN v1[k].number * v2[k].number + DotOver(v1, v2, keys \ {k})

\* the real number dot / sqrt(norm_sq), norm_sq > 0: a quotient of a dot
\* product by a product of Euclidean norms, kept exact
Ratio(dot, norm_sq) == [dot |-> dot, norm_sq |-> norm_sq]

SLe(x, y) ==
    IF x.dot < 0
    THEN y.dot >= 0 \/ x.dot * x.dot * y.norm_sq >= y.dot * y.dot * x.norm_sq
    ELSE y.dot >= 0 /\ x.dot * x.dot * y.norm_sq <= y.dot * y.dot * x.norm_sq

SLt(x, y) == ~SLe(y, x)

SEq(x, y) == SLe(x, y) /\ SLe(y, x)

Returned(value) == [raised |-> FALSE, similarity |-> value]

\* variant: the quotient taken by the first norm only
calculate_similarity_one_norm(vector1, vector2) ==
    LET common_keys == DOMAIN vector1 \cap DOMAIN vector2
        dot_product == DotOver(vector1, vector2, common_keys)
        norm_a_sq == DotOver(vector1, vector1, common_keys)
        norm_b_sq == DotOver(vector2, vector2, common_keys)
    IN IF common_keys = {} THEN Returned(Ratio(0, 1))
       ELSE IF \E k \in common_keys : ~IsNumber(vector1[k]) \/ ~IsNumber(vector2[k])
       THEN [raised |-> TRUE]
       ELSE IF norm_a_sq = 0 \/ norm_b_sq = 0 THEN Returned(Ratio(0, 1))
       ELSE Returned(Ratio(dot_product, norm_a_sq))

\* variant: each norm taken over all the keys of its own vector
calculate_similarity_full_norms(vector1, vector2) ==
    LET common_keys == DOMAIN vector1 \cap DOMAIN vector2
        dot_product == DotOver(vector1, vector2, common_keys)
        norm_a_sq == DotOver(vector1, vector1, DOMAIN vector1)
        norm_b_sq == DotOver(vector2, vector2, DOMAIN vector2)
    IN IF common_keys = {} THEN Returned(Ratio(0, 1))
       ELSE IF \E k \in common_keys : ~IsNumber(vector1[k]) \/ ~IsNumber(vector2[k])
       THEN [raised |-> TRUE]
       ELSE IF norm_a_sq = 0 \/ norm_b_sq = 0 THEN Returned(Ratio(0, 1))
       ELSE Returned(Ratio(dot_product, norm_a_sq * norm_b_sq))

\* np.array and np.dot raise on an entry that is not a number
calculate_similarity(vector1, vector2) ==
    LET common_keys == DOMAIN vector1 \cap DOMAIN vector2
        dot_product == DotOver(vector1, vector2, common_keys)
        norm_a_sq == DotOver(vector1, vector1, common_keys)
        norm_b_sq == DotOver(vector2, vector2, common_keys)
    IN IF common_keys = {} THEN Returned(Ratio(0, 1))
       ELSE IF \E k \in common_keys : ~IsNumber(vector1[k]) \/ ~IsNumber(vector2[k])
       THEN [raised |-> TRUE]
       ELSE IF norm_a_sq = 0 \/ norm_b_sq = 0 THEN Returned(Ratio(0, 1))
       ELSE Returned(Ratio(dot_product, norm_a_sq * norm_b_sq))

base_queryset_blocks_made_only ==
    {c \in Members :
        /\ profiles[c].has_profile
        /\ ~profiles[c].is_hidden
        /\ c # Requester
        /\ <<Requester, c>> \notin blocks}

\* Profile.objects.filter(...).exclude(...): the base queryset before the
\* location filter
active_profiles ==
    {c \in Members :
        /\ profiles[c].has_profile
        /\ ~profiles[c].is_hidden
        /\ c # Requester
        /\ <<Requester, c>> \notin blocks
        /\ <<c, Requester>> \notin blocks}

EarthRadius == 6371

Abs(n) == IF n < 0 THEN -n ELSE n

\* haversine_distance in km, for coordinates in whole degrees.  For two
\* points on one meridian a = sin^2(dlat/2), so c = |dlat| in radians and
\* the distance is R * |dlat| * pi/180; likewise along the equator.  pi is
\* taken as 355/113.
haversine_distance(lat1, lon1, lat2, lon2) ==
    CASE lon1 = lon2 -> Rat(EarthRadius * 355 * Abs(lat2 - lat1), 113 * 180)
      [] lat1 = 0 /\ lat2 = 0 -> Rat(EarthRadius * 355 * Abs(lon2 - lon1), 113 * 180)

\* `if x:` on a nullable float column: NULL and 0.0 are both false
Truthy(x) == x # None /\ x[1] # 0

effective_latitude ==
    IF profiles[Requester].is_passport_enabled
    THEN profiles[Requester].passport_latitude
    ELSE profiles[Requester].latitude

effective_longitude ==
    IF profiles[Requester].is_passport_enabled
    THEN profiles[Requester].passport_longitude
    ELSE profiles[Requester].longitude

location_aware_profiles ==
    {c \in active_profiles :
        profiles[c].latitude # None /\ profiles[c].longitude # None}

profiles_within_distance ==
    {c \in location_aware_profiles :
        RLe(haversine_distance(effective_latitude[1], effective_longitude[1],
                               profiles[c].latitude[1], profiles[c].longitude[1]),
            RInt(profiles[Requester].max_distance))}

\* the base queryset after the location filter
base_queryset ==
    IF Truthy(effective_latitude) /\ Truthy(effective_longitude)
    THEN profiles_within_distance
    ELSE IF profiles[Requester].country # ""
    THEN {c \in active_profiles : profiles[c].country = profiles[Requester].country}
    ELSE active_profiles

swiped_user_ids == {c \in Members : <<Requester, c>> \in swipes}

\* fallback path: un-swiped profiles, or every base profile when none is left
queryset(base, swiped) ==
    IF base \ swiped # {} THEN base \ swiped ELSE base

candidate_profiles_all(base, swiped) == base

\* feature-vector path: the same choice
candidate_profiles(base, swiped) ==
    IF base \ swiped # {} THEN base \ swiped ELSE base

\* Case(When(boost_expiry__gt=now, then=True), default=False): NULL is False
is_boosted(c) == profiles[c].boost_expiry # 0 /\ profiles[c].boost_expiry > now

common_interests(c) ==
    Cardinality(profiles[c].interests \cap profiles[Requester].interests)

similarity(c) ==
    LET candidate_feature_vector == feature_vectors[c]
    IN IF candidate_feature_vector.exists
          /\ DOMAIN candidate_feature_vector.feature_vector # {}
       THEN calculate_similarity(feature_vectors[Requester].feature_vector,
                                 candidate_feature_vector.feature_vector)
       ELSE Returned(Ratio(1, 4))

Orderings(S) ==
    {o \in [1..Cardinality(S) -> S] : \A i, j \in 1..Cardinality(S) : i # j => o[i] # o[j]}

Take(seq, n) == SubSeq(seq, 1, IF Len(seq) < n THEN Len(seq) ELSE n)

\* order_by('-is_boosted', '-common_interests', '?')
FallbackKeyGE(a, b) ==
    \/ is_boosted(a) /\ ~is_boosted(b)
    \/ is_boosted(a) = is_boosted(b) /\ common_interests(a) >= common_interests(b)

\* the key of recommendations.sort: (boost_expiry > now, similarity), reverse
sort_key(a, b) ==
    \/ profiles[a].boost_expiry > now /\ ~(profiles[b].boost_expiry > now)
    \/ (profiles[a].boost_expiry > now) = (profiles[b].boost_expiry > now)
       /\ SLe(similarity(b).similarity, similarity(a).similarity)

\* the orders the database can return the annotated queryset in
order_by(S) ==
    {o \in Orderings(S) : \A i, j \in 1..Len(o) : i < j => FallbackKeyGE(o[i], o[j])}

\* the orders recommendations.sort can leave the list in (the candidates are
\* iterated in an order the database chooses, ties keep that order)
sort(S) ==
    {o \in Orderings(S) : \A i, j \in 1..Len(o) : i < j => sort_key(o[i], o[j])}

Ok(list) == [op |-> "profile_recommendations", status |-> "ok", list |-> list]

Raised(error) == [op |-> "profile_recommendations", status |-> "error", error |-> error]

\* the responses profile_recommendations can give in the current tables
profile_recommendations ==
    IF ~profiles[Requester].has_profile
    THEN {Ok(<<>>)}
    ELSE LET user_feature_vector == feature_vectors[Requester] IN
         IF ~user_feature_vector.exists \/ DOMAIN user_feature_vector.feature_vector = {}
         THEN {Ok(Take(o, TopN)) :
                  o \in order_by(queryset(base_queryset, swiped_user_ids))}
         ELSE LET candidates == candidate_profiles(base_queryset, swiped_user_ids) IN
              IF \E c \in candidates : similarity(c).raised
              THEN {Raised("TypeError")}
              ELSE IF \E c \in candidates : profiles[c].boost_expiry = 0
              THEN {Raised("TypeError")}
              ELSE {Ok(Take(o, TopN)) : o \in sort(candidates)}

GetRecommendations ==
    /\ \E r \in profile_recommendations : response' = r
    /\ UNCHANGED <<matchVars, rankVars, eventVars, swipeVars>>

SwipeCandidate(c) ==
    /\ <<Requester, c>> \notin swipes
    /\ swipes' = swipes \cup {<<Requester, c>>}
    /\ swipe_action' = [swipe_action EXCEPT ![<<Requester, c>>] = "like"]
    /\ response' = NoResponse
    /\ UNCHANGED <<matchVars, eventVars, profiles, blocks, feature_vectors,
                   match_rows, requests>>

ActivateBoost(c, days) ==
    /\ profiles[c].has_profile
    /\ profiles' = [profiles EXCEPT ![c].boost_expiry = now + days]
    /\ response' = NoResponse
    /\ UNCHANGED <<matchVars, eventVars, swipes, blocks, feature_vectors, swipeVars>>

\* the (blocker, blocked user) pairs the block requests are drawn from
BlockPairs == {<<"me", "c2">>, <<"me", "c3">>, <<"c3", "me">>}

\* BlockCreateView.perform_create: nothing is created for an existing block
BlockUser(blocker, blocked_user) ==
    /\ <<blocker, blocked_user>> \notin blocks
    /\ blocks' = blocks \cup {<<blocker, blocked_user>>}
    /\ match_rows' = [i \in DOMAIN match_rows |->
                         IF Between(match_rows[i], blocker, blocked_user)
                         THEN [match_rows[i] EXCEPT !.is_active = FALSE]
                         ELSE match_rows[i]]
    /\ response' = NoResponse
    /\ UNCHANGED <<matchVars, eventVars, profiles, swipes, feature_vectors,
                   swipe_action, requests>>

\* unblock: Block.objects.get(id, blocker=request.user) answers 404 otherwise
Unblock(blocker, blocked_user) ==
    /\ <<blocker, blocked_user>> \in blocks
    /\ blocks' = blocks \ {<<blocker, blocked_user>>}
    /\ response' = NoResponse
    /\ UNCHANGED <<matchVars, eventVars, profiles, swipes, feature_vectors, swipeVars>>

InitRank ==
    /\ \E hp \in BOOLEAN, H \in SUBSET Candidates, b \in [Candidates -> BoostExpiries] :
          profiles = [m \in Members |->
                        IF m = Requester
                        THEN [has_profile |-> hp, is_hidden |-> FALSE, boost_expiry |-> 0,
                              interests |-> IF hp THEN SampleInterests[m] ELSE {}]
                             @@ Unlocated
                        ELSE [has_profile |-> TRUE, is_hidden |-> m \in H,
                              boost_expiry |-> b[m], interests |-> SampleInterests[m]]
                             @@ Unlocated]
    /\ \E V \in SUBSET Candidates, N \in SUBSET {"c3"},
          rv \in {NoRow, Row(<<>>), Row(SampleVectors[Requester]), Row(NestedVector)} :
          /\ N \subseteq V
          /\ ~profiles[Requester].has_profile => rv = NoRow
          /\ feature_vectors = [m \in Members |->
                                  IF m = Requester THEN rv
                                  ELSE IF m \in N THEN Row(NestedVector)
                                  ELSE IF m \in V THEN Row(SampleVectors[m]) ELSE NoRow]
    /\ swipes = {}
    /\ blocks = {}
    /\ users = [u \in UserIds |-> NewUser]
    /\ nOps = 0
    /\ response = NoResponse
    /\ EventIdle
    /\ SwipeIdle

NextRank ==
    \/ \E c \in Candidates : SwipeCandidate(c)
    \/ \E c \in Candidates, days \in BoostDurations : ActivateBoost(c, days)
    \/ \E pair \in BlockPairs : BlockUser(pair[1], pair[2])
    \/ \E pair \in BlockPairs : Unblock(pair[1], pair[2])
    \/ GetRecommendations

SpecRank == InitRank /\ [][NextRank]_vars

(***************************************************************************)
(* Event bus (events/__init__.py), the AIService consumer                  *)
(* (events/consumers.py) and the verification requests that publish        *)
(* (events/trust_verification.py).  stream is the Redis stream, an entry's *)
(* id is its index; last_delivered_id and pending are the state Redis      *)
(* keeps for the consumer group.                                           *)
(***************************************************************************)
MaxEvents == 2

Workers == {"ai_1", "ai_2"}

UnknownUser == "u9"

QualifyingEvents ==
    {"SwipeLiked", "SwipePassed", "UserMatched", "UserUnmatched", "MessageSent",
     "DateFeedbackSubmitted", "ProfileCompleted", "UserRegistered"}

EventTypes == {"UserRegistered", "MatchSuggestionRequested", "ProfileViewed"}

EventActors == {"u1", UnknownUser}

ReadCounts == {1, 10}

VerificationTypes == {"email", "photo", "selfie"}

VERIFICATION_TYPES == {"email", "photo", "video", "id_document", "background_check"}

EventEnvelope(event_type, actor_id) == [event_type |-> event_type, actor_id |-> actor_id]

Unchanged(logged) == [feature_vectors |-> feature_vectors, logged |-> logged]

\* the stored row is created or its feature_vector replaced by the new dict
_update_user_features(event_data) ==
    LET actor_id == event_data.actor_id IN
    IF actor_id = "" THEN Unchanged("none")
    ELSE IF actor_id \notin UserIds THEN Unchanged("User.DoesNotExist")
    ELSE LET feature_builder == EnhancedFeatureVector(users[actor_id]) IN
         IF feature_builder.raised THEN Unchanged("Exception")
         ELSE [feature_vectors |->
                   [feature_vectors EXCEPT ![actor_id] = Row(feature_builder.vector)],
               logged |-> "none"]

\* values_list('swiped') names no field of Swipe: FieldError, caught and logged
_generate_match_suggestions(event_data) ==
    LET user_id == event_data.actor_id IN
    IF user_id = "" THEN Unchanged("none")
    ELSE IF user_id \notin UserIds THEN Unchanged("User.DoesNotExist")
    ELSE Unchanged("Exception")

process_event(event_data) ==
    IF event_data.event_type \in QualifyingEvents
    THEN _update_user_features(event_data)
    ELSE IF event_data.event_type = "MatchSuggestionRequested"
    THEN _generate_match_suggestions(event_data)
    ELSE Unchanged("none")

\* xadd appends the entry, or raises when Redis refuses or is unreachable
PublishEvent(event_type, actor_id) ==
    /\ Len(stream) < MaxEvents
    /\ \E ok \in BOOLEAN :
          /\ stream' = IF ok THEN Append(stream, EventEnvelope(event_type, actor_id))
                       ELSE stream
          /\ response' = [op |-> "publish_event", error |-> IF ok THEN "none" ELSE "PublishError"]
    /\ UNCHANGED <<matchVars, rankVars, last_delivered_id, pending, failed, swipeVars>>

\* xreadgroup(group, consumer, {stream: ">"}, count): the entries never
\* delivered to the group so far, which become pending for this consumer
Readable == {i \in 1..Len(stream) : i > last_delivered_id}

consume_events(count) == {i \in Readable : i <= last_delivered_id + count}

ConsumeEvents(worker, count) ==
    /\ consume_events(count) # {}
    /\ pending' = pending \cup {[id |-> i, consumer |-> worker] : i \in consume_events(count)}
    /\ last_delivered_id' = CHOOSE i \in consume_events(count) :
                                \A j \in consume_events(count) : j <= i
    /\ response' = [op |-> "consume_events", consumer |-> worker,
                    ids |-> consume_events(count)]
    /\ UNCHANGED <<matchVars, profiles, swipes, blocks, feature_vectors, stream, failed, swipeVars>>

\* the worker hands a delivered entry to AIService.process_event and then
\* calls acknowledge_event (xack)
ProcessEvent(worker, id) ==
    /\ [id |-> id, consumer |-> worker] \in pending
    /\ id \notin failed
    /\ feature_vectors' = process_event(stream[id]).feature_vectors
    /\ pending' = pending \ {[id |-> id, consumer |-> worker]}
    /\ response' = [op |-> "process_event", event |-> stream[id], error |-> "none",
                    logged |-> process_event(stream[id]).logged]
    /\ UNCHANGED <<matchVars, profiles, swipes, blocks, stream, last_delivered_id, failed, swipeVars>>

\* the worker fails while processing a delivered entry and never
\* acknowledges it
ProcessingFails(worker, id) ==
    /\ [id |-> id, consumer |-> worker] \in pending
    /\ id \notin failed
    /\ failed' = failed \cup {id}
    /\ response' = NoResponse
    /\ UNCHANGED <<matchVars, rankVars, stream, last_delivered_id, pending, swipeVars>>

VerificationResponse(op, user, result, error, publish_failed) ==
    [op |-> op, user |-> user, result |-> result, error |-> error,
     publish_failed |-> publish_failed]

\* request_verification: publish_event, then Notification.objects.create with
\* keywords (user, type, title, data) the Notification model does not have
RequestVerification(u, verification_type) ==
    /\ IF verification_type \notin VERIFICATION_TYPES
       THEN /\ response' = VerificationResponse("request_verification", u, "False",
                                                "none", FALSE)
            /\ UNCHANGED stream
       ELSE \/ /\ Len(stream) < MaxEvents
               /\ stream' = Append(stream, EventEnvelope("VerificationRequested", u))
               /\ response' = VerificationResponse("request_verification", u, "none",
                                                   "TypeError", FALSE)
            \/ /\ response' = VerificationResponse("request_verification", u, "none",
                                                   "PublishError", TRUE)
               /\ UNCHANGED stream
    /\ UNCHANGED <<matchVars, rankVars, last_delivered_id, pending, failed, swipeVars>>

\* approve_verification: is_verified is saved before the level is assessed
\* and the event published; only User.DoesNotExist is caught
ApproveVerification(user_id, verification_type) ==
    IF user_id \notin UserIds
    THEN /\ response' = VerificationResponse("approve_verification", user_id, "False",
                                             "none", FALSE)
         /\ UNCHANGED <<matchVars, rankVars, eventVars, swipeVars>>
    ELSE /\ users' = [users EXCEPT ![user_id].is_verified =
                          @ \/ verification_type = "email"]
         /\ IF assess_trust_level(users'[user_id]).raised
            THEN /\ response' = VerificationResponse("approve_verification", user_id,
                                    "none", "RelatedObjectDoesNotExist", FALSE)
                 /\ UNCHANGED stream
            ELSE \/ /\ Len(stream) < MaxEvents
                    /\ stream' = Append(stream, EventEnvelope("TrustLevelUpdated", "admin"))
                    /\ response' = VerificationResponse("approve_verification", user_id,
                                       "none", "TypeError", FALSE)
                 \/ /\ response' = VerificationResponse("approve_verification", user_id,
                                       "none", "PublishError", TRUE)
                    /\ UNCHANGED stream
         /\ UNCHANGED <<nOps, rankVars, last_delivered_id, pending, failed, swipeVars>>

InitEvents ==
    /\ users \in [UserIds -> {NewUser, ProfiledUser}]
    /\ nOps = 0
    /\ response = NoResponse
    /\ profiles = [m \in Members |-> DefaultProfile(m)]
    /\ swipes = {}
    /\ blocks = {}
    /\ feature_vectors = [u \in UserIds |-> NoRow]
    /\ EventIdle
    /\ SwipeIdle

NextEvents ==
    \/ \E u \in UserIds : CreateProfile(u)
    \/ \E t \in EventTypes, a \in EventActors : PublishEvent(t, a)
    \/ \E w \in Workers, n \in ReadCounts : ConsumeEvents(w, n)
    \/ \E w \in Workers, i \in 1..MaxEvents : ProcessEvent(w, i)
    \/ \E w \in Workers, i \in 1..MaxEvents : ProcessingFails(w, i)
    \/ \E u \in EventActors \cap UserIds, t \in VerificationTypes :
          RequestVerification(u, t)
    \/ \E u \in EventActors, t \in VerificationTypes : ApproveVerification(u, t)

SpecEvents == InitEvents /\ [][NextEvents]_vars

\* ---------------------------------------------------------------------
\* calculate_similarity on its own: the two vectors are drawn at the start
\* ---------------------------------------------------------------------

MaxValue == 2

SimilarityKeys == {"feature_0", "feature_1", "feature_2"}

SimilarityValues == {Num(n) : n \in -1..MaxValue}

SimilarityVectors == UNION {[K -> SimilarityValues] : K \in SUBSET SimilarityKeys}

SimilarityOwners == {Requester, "c1"}

CalculateSimilarity(a, b) ==
    LET vector1 == feature_vectors[a].feature_vector
        vector2 == feature_vectors[b].feature_vector
    IN /\ response' = [op |-> "calculate_similarity",
                       vector1 |-> vector1, vector2 |-> vector2,
                       result |-> calculate_similarity(vector1, vector2)]
       /\ UNCHANGED <<matchVars, rankVars, eventVars, swipeVars>>

InitSimilarity ==
    /\ users = [u \in UserIds |-> NewUser]
    /\ nOps = 0
    /\ response = NoResponse
    /\ profiles = [m \in Members |-> DefaultProfile(m)]
    /\ swipes = {}
    /\ blocks = {}
    /\ feature_vectors \in [SimilarityOwners -> {Row(v) : v \in SimilarityVectors}]
    /\ EventIdle
    /\ SwipeIdle

NextSimilarity == \E a, b \in SimilarityOwners : CalculateSimilarity(a, b)

SpecSimilarity == InitSimilarity /\ [][NextSimilarity]_vars

Init ==
    /\ users \in [UserIds -> {NewUser, ProfiledUser}]
    /\ nOps = 0
    /\ response = NoResponse
    /\ RankIdle
    /\ EventIdle
    /\ SwipeIdle

Next ==
    \/ \E u \in UserIds : CreateProfile(u)
    \/ \E u \in UserIds : UpdateProfile(u)
    \/ \E u \in UserIds : VerifyEmail(u)
    \/ \E u \in UserIds : UploadPrimaryPhoto(u)
    \/ \E u \in UserIds, a \in SwipeActions : Swipe(u, a)
    \/ \E u \in UserIds : NewMatch(u)
    \/ \E u \in UserIds, i \in 1..MaxOps : Unmatch(u, i)
    \/ \E u \in UserIds, i \in 1..MaxOps, mine \in BOOLEAN, gap \in MessageGaps :
          Message(u, i, mine, gap)
    \/ \E u, v \in UserIds : CalculateMatchScore(u, v)

Spec == Init /\ [][Next]_vars

(***************************************************************************)
(* SpecTrust: the verification handlers and the two trust queries.         *)
(***************************************************************************)
NextTrust ==
    \/ \E u \in UserIds : CreateProfile(u)
    \/ \E u \in UserIds : VerifyEmail(u)
    \/ \E u \in UserIds : UploadPrimaryPhoto(u)
    \/ \E u \in UserIds : DeletePrimaryPhoto(u)
    \/ \E u \in UserIds : AssessTrustLevel(u)
    \/ \E u \in UserIds, f \in Features : CanAccessFeature(u, f)

SpecTrust == Init /\ [][NextTrust]_vars

(***************************************************************************)
(* SpecFeature: the feature vector of one user whose rows are drawn from   *)
(* bounded sets that straddle the thresholds of the builder.               *)
(***************************************************************************)
MaxMatches == 2

SwipeCounts == {0, 1, 60}

RECURSIVE MakeConversation(_)
MakeConversation(n) ==
    IF n = 0 THEN <<>>
    ELSE Append(MakeConversation(n - 1), [mine |-> n % 2 = 1, at |-> 10 * n])

MatchSamples ==
    {[is_active |-> FALSE, has_conversation |-> FALSE, messages |-> <<>>],
     [is_active |-> TRUE, has_conversation |-> FALSE, messages |-> <<>>],
     [is_active |-> TRUE, has_conversation |-> TRUE,
      messages |-> MakeConversation(DeepConversation - 1)],
     [is_active |-> FALSE, has_conversation |-> TRUE,
      messages |-> MakeConversation(DeepConversation)]}

MatchLists == UNION {[1..n -> MatchSamples] : n \in 0..MaxMatches}

MessagesSent(matches) ==
    SumSeq([i \in 1..Len(matches) |->
               Cardinality({k \in 1..Len(matches[i].messages) :
                               matches[i].messages[k].mine})])

InitFeature ==
    /\ \E p \in BOOLEAN, v \in BOOLEAN, ph \in BOOLEAN, dob \in {0, 10950},
          S \in {{}, {"a"}}, bio \in BOOLEAN,
          l \in SwipeCounts, ps \in SwipeCounts, sl \in {0, 1},
          recent \in BOOLEAN, ms \in MatchLists :
          users = [u \in UserIds |->
                     IF u = "u1"
                     THEN [has_profile |-> p, is_verified |-> v,
                           date_of_birth |-> IF p THEN dob ELSE 0,
                           min_age |-> 18, max_age |-> 100,
                           interests |-> IF p THEN S ELSE {}, values |-> {},
                           has_primary_photo |-> p /\ ph,
                           has_bio |-> p /\ bio, has_location |-> FALSE,
                           likes |-> l, passes |-> ps, super_likes |-> sl,
                           recent_swipes |-> IF recent THEN l + ps + sl ELSE 0,
                           recent_messages |->
                               IF recent THEN MessagesSent(ms) ELSE 0,
                           matches |-> ms]
                     ELSE NewUser]
    /\ nOps = 0
    /\ response = NoResponse
    /\ RankIdle
    /\ EventIdle
    /\ SwipeIdle

NextFeature == \E u \in UserIds : BuildFeatureVector(u)

SpecFeature == InitFeature /\ [][NextFeature]_vars

(***************************************************************************)
(* SpecSwipe: the Swipe and Match tables under SwipeCreateView.create,     *)
(* unmatch and BlockCreateView.  A create request is a sequence of         *)
(* queries; requests of different users interleave between queries.        *)
(* swipes holds the (swiper, swiped_user) pairs that have a Swipe row,     *)
(* swipe_action the action column, match_rows the Match rows by id.        *)
(***************************************************************************)
SwipeUsers == {Requester, "c2"}

Likes == {"like", "super_like"}

InFlight == {r \in 1..MaxRequests : requests[r].pc \notin {"idle", "done", "failed"}}

SwipeResponse(r, status, is_match) ==
    [op |-> "swipe_create", request |-> r, status |-> status, is_match |-> is_match]

\* a request arrives: serializer.is_valid, swiper = request.user
SwipeCreate(r, swiper, swiped_user, action) ==
    /\ requests[r].pc = "idle"
    /\ \A q \in 1..(r - 1) : requests[q].pc # "idle"
    /\ Cardinality(InFlight) < MaxInFlight
    /\ swiper # swiped_user
    /\ requests' = [requests EXCEPT ![r] =
                       [pc |-> "existing_swipe", swiper |-> swiper,
                        swiped_user |-> swiped_user, action |-> action]]
    /\ response' = NoResponse
    /\ UNCHANGED <<matchVars, rankVars, eventVars, swipe_action, match_rows>>

\* existing_swipe = Swipe.objects.filter(swiper, swiped_user).first()
ReadExistingSwipe(r) ==
    LET q == requests[r]
        pair == <<q.swiper, q.swiped_user>>
    IN /\ q.pc = "existing_swipe"
       /\ requests' = [requests EXCEPT ![r] =
                          [q EXCEPT !.pc = "save"] @@
                          [existing_swipe |->
                              IF pair \in swipes THEN swipe_action[pair] ELSE "none"]]
       /\ response' = NoResponse
       /\ UNCHANGED <<matchVars, rankVars, eventVars, swipe_action, match_rows>>

\* the row is updated when it was found, inserted otherwise; the insert
\* violates unique_together when the row has appeared since the read.  A
\* pass answers here, a like goes on to the reverse swipe.
SaveSwipe(r) ==
    LET q == requests[r]
        pair == <<q.swiper, q.swiped_user>>
        next == IF q.action \in Likes THEN "reverse_swipe" ELSE "done"
    IN /\ q.pc = "save"
       /\ IF q.existing_swipe = "none" /\ pair \in swipes
          THEN /\ requests' = [requests EXCEPT ![r] =
                                  [pc |-> "failed", swiper |-> q.swiper,
                                   swiped_user |-> q.swiped_user,
                                   action |-> q.action, at |-> "Swipe"]]
               /\ response' = SwipeResponse(r, "IntegrityError", FALSE)
               /\ UNCHANGED <<swipes, swipe_action>>
          ELSE /\ swipes' = swipes \cup {pair}
               /\ swipe_action' = [swipe_action EXCEPT ![pair] = q.action]
               /\ requests' = [requests EXCEPT ![r].pc = next]
               /\ response' = IF next = "done" THEN SwipeResponse(r, "ok", FALSE)
                              ELSE NoResponse
       /\ UNCHANGED <<matchVars, eventVars, profiles, blocks, feature_vectors,
                      match_rows>>

\* reverse_swipe = Swipe.objects.filter(swiper=swiped_user, swiped_user=swiper,
\* action__in=['like', 'super_like']).first()
ReadReverseSwipe(r) ==
    LET q == requests[r]
        back == <<q.swiped_user, q.swiper>>
        reverse_swipe == back \in swipes /\ swipe_action[back] \in Likes
    IN /\ q.pc = "reverse_swipe"
       /\ requests' = [requests EXCEPT ![r].pc =
                          IF reverse_swipe THEN "match" ELSE "done"]
       /\ response' = IF reverse_swipe THEN NoResponse
                      ELSE SwipeResponse(r, "ok", FALSE)
       /\ UNCHANGED <<matchVars, rankVars, eventVars, swipe_action, match_rows>>

\* match = Match.objects.filter(Q(user1, user2) | Q(user2, user1),
\* is_active=True).first()
ReadActiveMatch(r) ==
    LET q == requests[r]
        match == \E i \in DOMAIN match_rows :
                    /\ Between(match_rows[i], q.swiper, q.swiped_user)
                    /\ match_rows[i].is_active
    IN /\ q.pc = "match"
       /\ requests' = [requests EXCEPT ![r].pc = IF match THEN "done" ELSE "create"]
       /\ response' = IF match THEN SwipeResponse(r, "ok", TRUE) ELSE NoResponse
       /\ UNCHANGED <<matchVars, rankVars, eventVars, swipe_action, match_rows>>

\* Match.objects.create(user1=swiper, user2=swiped_user): unique_together
\* ['user1', 'user2'] refuses a second row with the same ordered pair,
\* active or not
CreateMatch(r) ==
    LET q == requests[r]
    IN /\ q.pc = "create"
       /\ IF \E i \in DOMAIN match_rows :
                match_rows[i].user1 = q.swiper /\ match_rows[i].user2 = q.swiped_user
          THEN /\ requests' = [requests EXCEPT ![r] =
                                  [pc |-> "failed", swiper |-> q.swiper,
                                   swiped_user |-> q.swiped_user,
                                   action |-> q.action, at |-> "Match"]]
               /\ response' = SwipeResponse(r, "IntegrityError", FALSE)
               /\ UNCHANGED match_rows
          ELSE /\ match_rows' = Append(match_rows,
                                   [user1 |-> q.swiper, user2 |-> q.swiped_user,
                                    is_active |-> TRUE])
               /\ requests' = [requests EXCEPT ![r].pc = "done"]
               /\ response' = SwipeResponse(r, "ok", TRUE)
       /\ UNCHANGED <<matchVars, rankVars, eventVars, swipe_action>>

\* unmatch(request, match_id) by one of the two users of an active match
unmatch(user, match_id) ==
    /\ match_id \in DOMAIN match_rows
    /\ match_rows[match_id].is_active
    /\ user \in {match_rows[match_id].user1, match_rows[match_id].user2}
    /\ match_rows' = [match_rows EXCEPT ![match_id].is_active = FALSE]
    /\ response' = NoResponse
    /\ UNCHANGED <<matchVars, rankVars, eventVars, swipe_action, requests>>

InitSwipe ==
    /\ users = [u \in UserIds |-> NewUser]
    /\ nOps = 0
    /\ response = NoResponse
    /\ RankIdle
    /\ EventIdle
    /\ SwipeIdle

NextSwipe ==
    \/ \E r \in 1..MaxRequests, swiper \in SwipeUsers, swiped_user \in SwipeUsers,
          action \in SwipeActions : SwipeCreate(r, swiper, swiped_user, action)
    \/ \E r \in 1..MaxRequests : ReadExistingSwipe(r)
    \/ \E r \in 1..MaxRequests : SaveSwipe(r)
    \/ \E r \in 1..MaxRequests : ReadReverseSwipe(r)
    \/ \E r \in 1..MaxRequests : ReadActiveMatch(r)
    \/ \E r \in 1..MaxRequests : CreateMatch(r)
    \/ \E user \in SwipeUsers, match_id \in 1..MaxRequests : unmatch(user, match_id)
    \/ \E blocker \in SwipeUsers, blocked_user \in SwipeUsers :
          blocker # blocked_user /\ BlockUser(blocker, blocked_user)

SpecSwipe == InitSwipe /\ [][NextSwipe]_vars

(***************************************************************************)
(* SpecGeo: recommendations on the fallback path for a requester and       *)
(* candidates whose location columns are drawn from places on one          *)
(* meridian, one degree of latitude being about 111 km.                    *)
(***************************************************************************)
Places == {<<None, None>>, <<Some(1), Some(10)>>, <<Some(3), Some(10)>>}

RequesterPlaces == Places \cup {<<Some(0), Some(10)>>}

PassportPlaces == {<<None, None>>, <<Some(3), Some(10)>>}

Countries == {"NG", "GH"}

MaxDistances == {DefaultMaxDistance, 250}

InitGeo ==
    /\ \E home \in RequesterPlaces, passport \in PassportPlaces, on \in BOOLEAN,
          country \in Countries \cup {""}, radius \in MaxDistances,
          place \in [Candidates -> Places], land \in [Candidates -> Countries] :
          profiles = [m \in Members |->
                        IF m = Requester
                        THEN [has_profile |-> TRUE, is_hidden |-> FALSE,
                              boost_expiry |-> 0, interests |-> {},
                              latitude |-> home[1], longitude |-> home[2],
                              country |-> country, max_distance |-> radius,
                              is_passport_enabled |-> on,
                              passport_latitude |-> passport[1],
                              passport_longitude |-> passport[2]]
                        ELSE [DefaultProfile(m) EXCEPT
                                 !.latitude = place[m][1],
                                 !.longitude = place[m][2],
                                 !.country = land[m]]]
    /\ swipes = {}
    /\ blocks = {}
    /\ feature_vectors = [m \in Members |-> NoRow]
    /\ users = [u \in UserIds |-> NewUser]
    /\ nOps = 0
    /\ response = NoResponse
    /\ EventIdle
    /\ SwipeIdle

NextGeo == GetRecommendations

SpecGeo == InitGeo /\ [][NextGeo]_vars

(***************************************************************************)
(* SpecPair: the match score of two users with a profile, whose            *)
(* verification, photo, swipe and message rows are drawn from bounded sets *)
(* that straddle the thresholds of the sub-scores.                         *)
(***************************************************************************)
Conversation(messages) ==
    [is_active |-> TRUE, has_conversation |-> TRUE, messages |-> messages]

PairMatchLists ==
    {<<>>,
     <<Conversation(<<[mine |-> FALSE, at |-> 10], [mine |-> FALSE, at |-> 2010]>>)>>,
     <<Conversation(<<[mine |-> TRUE, at |-> 10], [mine |-> FALSE, at |-> 20],
                      [mine |-> FALSE, at |-> 30]>>)>>,
     <<Conversation(<<[mine |-> TRUE, at |-> 10], [mine |-> FALSE, at |-> 2010]>>)>>}

PairUsers ==
    {[has_profile |-> TRUE, is_verified |-> v, date_of_birth |-> 0,
      min_age |-> 18, max_age |-> 100, interests |-> {}, values |-> {},
      has_primary_photo |-> ph, has_bio |-> FALSE, has_location |-> FALSE,
      likes |-> l, passes |-> ps, super_likes |-> 0, recent_swipes |-> l + ps,
      recent_messages |-> MessagesSent(ms), matches |-> ms] :
        v \in BOOLEAN, ph \in BOOLEAN, l \in {0, 1}, ps \in {0, 1},
        ms \in PairMatchLists}

InitPair ==
    /\ users \in [UserIds -> PairUsers]
    /\ nOps = 0
    /\ response = NoResponse
    /\ RankIdle
    /\ EventIdle
    /\ SwipeIdle

NextPair ==
    \/ \E u, v \in UserIds : CalculateMatchScore(u, v)
    \/ \E u \in UserIds : BuildFeatureVector(u)

SpecPair == InitPair /\ [][NextPair]_vars

(***************************************************************************)
(* Properties of the match score (Spec).                                   *)
(***************************************************************************)
Scored == response.op = "calculate_match_score" /\ ~response.result.raised

Vector1 == _build_feature_vector(users[response.user1])

Vector2 == _build_feature_vector(users[response.user2])

\* C1: the final score returned by calculate_match_score is
\* 0.25*preference + 0.20*interest + 0.20*values + 0.15*behavioral
\* + 0.10*trust + 0.10*recency, the six weights sum to 1, and the final score
\* lies in [0,1].
C1_WeightedSum ==
    Scored =>
        LET expected ==
                RAdd(RMul(Rat(25, 100), _calculate_preference_alignment(Vector1, Vector2).score),
                RAdd(RMul(Rat(20, 100), _calculate_interest_similarity(Vector1, Vector2).score),
                RAdd(RMul(Rat(20, 100), _calculate_values_compatibility(Vector1, Vector2).score),
                RAdd(RMul(Rat(15, 100), _calculate_behavioral_compatibility(Vector1, Vector2).score),
                RAdd(RMul(Rat(10, 100), _calculate_trust_safety_score(Vector1, Vector2).score),
                     RMul(Rat(10, 100), _calculate_activity_recency(Vector1, Vector2).score))))))
            total == RAdd(weights.preference_alignment,
                     RAdd(weights.interest_similarity,
                     RAdd(weights.values_compatibility,
                     RAdd(weights.behavioral_compatibility,
                     RAdd(weights.trust_safety_score, weights.activity_recency)))))
        IN /\ response.result.final_score = expected
           /\ total = One
           /\ RLe(Zero, response.result.final_score)
           /\ RLe(response.result.final_score, One)

\* a score was returned for two users with overlapping, unequal interest sets
C1_Witness ==
    /\ Scored
    /\ _calculate_interest_similarity(Vector1, Vector2).score = Rat(1, 3)

\* C2: swapping the two users leaves every sub-score and the final score
\* unchanged.
C2_SwapSymmetric ==
    Scored =>
        /\ \A c \in Range(Components) :
              ComponentResults(Vector1, Vector2)[c].score
                  = ComponentResults(Vector2, Vector1)[c].score
        /\ calculate_match_score(users[response.user2], users[response.user1]).final_score
               = response.result.final_score

\* a score was returned for a pair where only one user's age range contains
\* the other's age
C2_Witness ==
    /\ Scored
    /\ LET a1 == Vector1.demographics.age
           a2 == Vector2.demographics.age
           r1 == Vector1.preferences.age_range
           r2 == Vector2.preferences.age_range
       IN (r1[1] <= a2 /\ a2 <= r1[2]) /\ ~(r2[1] <= a1 /\ a1 <= r2[2])

ReasonTexts ==
    <<{"Age preferences are mutually compatible", "Age preferences partially align",
       "Age preferences don't align"},
      {"Limited interest data available", "Shared interests: ",
       "No shared interests found"},
      {"Limited values data available", "Shared values: ", "Different value systems"},
      {"Similar communication response times", "Different communication paces",
       "Similar engagement patterns", "Different engagement levels"},
      {"Both users have high trust scores", "Both users have good trust scores",
       "Trust verification recommended"},
      {"Both users are actively engaged"}>>

\* the components (1..6, in evaluation order) a reason text belongs to
ReasonComponents(reason) == {k \in 1..6 : reason.text \in ReasonTexts[k]}

\* C4: the reasons list holds at least one reason of each of the six
\* components, and no reason of a later component precedes one of an earlier
\* component.
C4_ReasonsOrdered ==
    Scored =>
        LET reasons == response.result.reasons
        IN /\ \A i \in 1..Len(reasons) : Cardinality(ReasonComponents(reasons[i])) = 1
           /\ \A k \in 1..6 : \E i \in 1..Len(reasons) : k \in ReasonComponents(reasons[i])
           /\ \A i, j \in 1..Len(reasons) :
                 i < j => \A k \in ReasonComponents(reasons[i]),
                             m \in ReasonComponents(reasons[j]) : k <= m

\* a score was returned with a shared-interest reason among its reasons
C4_Witness ==
    /\ Scored
    /\ Len(response.result.reasons) >= 6
    /\ \E i \in 1..Len(response.result.reasons) :
          response.result.reasons[i].text = "Shared interests: "

(***************************************************************************)
(* Properties of the feature vector (SpecFeature).                         *)
(***************************************************************************)
Built == response.op = "build_feature_vector" /\ ~response.result.raised

InUnit(r) == RLe(Zero, r) /\ RLe(r, One)

\* C3: in every built feature vector trust_score, engagement_score,
\* chat_depth_score, unmatch_rate and like_rate lie in [0,1], and like_rate is
\* likes/(likes+passes), or 0 when likes+passes = 0.
C3_BoundedScores ==
    Built =>
        LET v == response.result.vector
            b == v.behavioral_signals
            u == users[response.user]
        IN /\ InUnit(v.trust_score)
           /\ InUnit(v.engagement_score)
           /\ InUnit(b.chat_depth_score)
           /\ InUnit(b.unmatch_rate)
           /\ InUnit(b.like_rate)
           /\ u.likes + u.passes = 0 => b.like_rate = Zero
           /\ u.likes + u.passes > 0
                 => b.like_rate.num * (u.likes + u.passes) = u.likes * b.like_rate.den

\* a vector was built for a user with more likes than passes, an inactive
\* match, a deep conversation and recent activity beyond the cap
C3_Witness ==
    /\ Built
    /\ LET u == users[response.user]
       IN /\ u.likes > u.passes /\ u.passes > 0
          /\ u.recent_swipes + u.recent_messages > ActivityCap
          /\ response.result.vector.behavioral_signals.unmatch_rate # Zero
          /\ response.result.vector.behavioral_signals.chat_depth_score # Zero

(***************************************************************************)
(* Properties of the trust levels (SpecTrust).                             *)
(***************************************************************************)
Assessed == response.op = "assess_trust_level" /\ ~response.result.raised

\* the verification flag a requirement name stands for; nothing in the code
\* records id_verified or behavioral_trust
HoldsRequirement(user, req) ==
    CASE req = "email_verified" -> user.is_verified
      [] req = "photo_verified" -> user.has_profile /\ user.has_primary_photo
      [] OTHER -> FALSE

LevelAchieved(user, l) ==
    \A k \in 0..l : \A req \in Range(TRUST_LEVELS[k].requirements) :
        HoldsRequirement(user, req)

\* C5: assess_trust_level returns the highest level L such that the
\* prerequisite flags of L and of every level below L hold (a user with a
\* primary photo and no verified email is not at level 2).
C5_HighestLevelInOrder ==
    Assessed =>
        /\ LevelAchieved(users[response.user], response.result.level)
        /\ \A l \in TrustLevelIds :
              LevelAchieved(users[response.user], l) => l <= response.result.level

\* C6: an email-verified user with a primary photo is assessed at level 2 or
\* higher, nobody is assessed at level 3 or 4 without the id_verified flag,
\* and the level is in 0..4.
C6_LevelBounds ==
    Assessed =>
        LET u == users[response.user]
            level == response.result.level
        IN /\ level \in 0..4
           /\ (u.is_verified /\ u.has_primary_photo) => level >= 2
           /\ level >= 3 => HoldsRequirement(u, "id_verified")

\* an email-verified user with a primary photo was assessed
C6_Witness ==
    /\ Assessed
    /\ users[response.user].is_verified
    /\ users[response.user].has_primary_photo
    /\ response.result.level = 2

Cumulative(levels) ==
    \A n \in 1..4 :
        /\ Range(levels[n - 1].capabilities) \subseteq Range(levels[n].capabilities)
        /\ Len(levels[n].requirements) = Len(levels[n - 1].requirements) + 1
        /\ SubSeq(levels[n].requirements, 1, Len(levels[n - 1].requirements))
               = levels[n - 1].requirements

CanAccess(user, feature) ==
    /\ ~can_access_feature(user, feature).raised
    /\ can_access_feature(user, feature).allowed

FlagsKept(before, after) ==
    /\ before.has_profile => after.has_profile
    /\ before.is_verified => after.is_verified
    /\ before.has_primary_photo => after.has_primary_photo

\* C7: each level's capabilities contain those of the level below and its
\* requirements are those of the level below plus one; and a feature a user
\* can access stays accessible in every step that only makes flags true.
C7_Cumulative ==
    [][/\ Cumulative(TRUST_LEVELS)
       /\ Cumulative(MATCHING_TRUST_LEVELS)
       /\ \A u \in UserIds, f \in Features :
             (FlagsKept(users[u], users'[u]) /\ CanAccess(users[u], f))
                 => CanAccess(users'[u], f)]_vars

\* video chat was granted to a user who is email-verified and has a photo
C7_Witness ==
    /\ response.op = "can_access_feature"
    /\ response.feature = "video_chat"
    /\ ~response.result.raised
    /\ response.result.allowed
    /\ users[response.user].is_verified

(***************************************************************************)
(* Properties of profile_recommendations (SpecRank).                       *)
(***************************************************************************)
Listed == response.op = "profile_recommendations" /\ response.status = "ok"

VectorPath ==
    /\ profiles[Requester].has_profile
    /\ feature_vectors[Requester].exists
    /\ DOMAIN feature_vectors[Requester].feature_vector # {}

\* C8: on both paths, the returned profiles are the un-swiped profiles that
\* pass the filters whenever there is one, and the profiles that pass the
\* filters, swiped ones included, only when there is none.
C8_SwipedExcluded ==
    (Listed /\ profiles[Requester].has_profile) =>
        LET unswiped == base_queryset \ swiped_user_ids
        IN /\ unswiped # {} => Range(response.list) = unswiped
           /\ unswiped = {} => Range(response.list) = base_queryset

\* on the feature-vector path a list was returned that leaves out a swiped
\* profile passing the filters
C8_Witness ==
    /\ Listed
    /\ VectorPath
    /\ response.list # <<>>
    /\ base_queryset \cap swiped_user_ids # {}
    /\ Range(response.list) \cap swiped_user_ids = {}

ScoreFirstGE(a, b) ==
    \/ SLt(similarity(b).similarity, similarity(a).similarity)
    \/ SEq(similarity(a).similarity, similarity(b).similarity)
       /\ (profiles[a].boost_expiry > now \/ ~(profiles[b].boost_expiry > now))

\* C9: on the feature-vector path the returned list is in descending score
\* order, a boosted profile preceding an un-boosted one only among equal
\* scores, and holds at most 10 profiles.
C9_ScoreThenBoost ==
    (Listed /\ VectorPath) =>
        /\ Len(response.list) <= 10
        /\ \A i, j \in 1..Len(response.list) :
              i < j => ScoreFirstGE(response.list[i], response.list[j])

\* C10: profile_recommendations answers every request with a list.
C10_NeverRaises ==
    response.op = "profile_recommendations" => response.status = "ok"

\* C11: after any swipes, blocks and unblocks the returned list never holds
\* the requester, a user the requester has blocked, or a user who has blocked
\* the requester, the previously-swiped fallback included.
C11_NoSelfNoBlocked ==
    Listed =>
        \A i \in 1..Len(response.list) :
            /\ response.list[i] # Requester
            /\ <<Requester, response.list[i]>> \notin blocks
            /\ <<response.list[i], Requester>> \notin blocks

\* the swiped fallback returned the one profile left beside a blocked user
\* and a user who blocked the requester
C11_Witness ==
    /\ Listed
    /\ <<Requester, "c2">> \in blocks
    /\ <<"c3", Requester>> \in blocks
    /\ <<Requester, "c1">> \in swipes
    /\ response.list = <<"c1">>

\* the candidates the feature-vector path scores
ScoredCandidates == candidate_profiles(base_queryset, swiped_user_ids)

\* C12: when scoring one candidate raises on the feature-vector path, the
\* request is still answered with a list, and every candidate whose scoring
\* does not raise is in it.
C12_ErrorPerCandidate ==
    (/\ response.op = "profile_recommendations"
     /\ VectorPath
     /\ \A c \in ScoredCandidates : profiles[c].boost_expiry # 0
     /\ \E c \in ScoredCandidates : similarity(c).raised)
        => /\ response.status = "ok"
           /\ \A c \in ScoredCandidates :
                 ~similarity(c).raised => c \in Range(response.list)

(***************************************************************************)
(* Properties of the event bus and its consumer (SpecEvents).              *)
(***************************************************************************)
Processed == response.op = "process_event"

\* C13: after process_event has handled a qualifying event whose actor_id
\* names an existing user, that user's stored vector is the freshly built one.
C13_VectorReplaced ==
    (/\ Processed
     /\ response.event.event_type \in QualifyingEvents
     /\ response.event.actor_id \in UserIds)
        => feature_vectors[response.event.actor_id]
               = Row(_build_feature_vector(users[response.event.actor_id]))

\* C14: an entry whose processing failed and that was never acknowledged is
\* among the entries a later consume_events call of the group returns, and no
\* entry is pending for two consumers of the group.
C14_AtLeastOnce ==
    /\ \A i \in failed : i \in Readable
    /\ \A p, q \in pending : p.id = q.id => p.consumer = q.consumer

\* C15: an operation during which the publish failed still completes with
\* its normal result.
C15_PublishFailureCaught ==
    (/\ response.op \in {"request_verification", "approve_verification"}
     /\ response.publish_failed)
        => response.error = "none"

\* C16: process_event on a feature-update or scoring event whose actor_id
\* names no user ends with a not-found error raised to its caller.
C16_NotFoundSurfaced ==
    (/\ Processed
     /\ response.event.event_type \in QualifyingEvents \cup {"MatchSuggestionRequested"}
     /\ response.event.actor_id \notin UserIds \cup {""})
        => response.error = "NotFound"

\* ---------------------------------------------------------------------
\* C17, C18: calculate_similarity
\* ---------------------------------------------------------------------

Compared == response.op = "calculate_similarity"

NonZeroOn(vector, keys) == \E k \in keys : vector[k].number # 0

C18_SharedKeysOnly ==
    Compared =>
        LET v1 == response.vector1
            v2 == response.vector2
            shared == DOMAIN v1 \cap DOMAIN v2
            r == response.result
        IN /\ ~r.raised
           /\ r.similarity.norm_sq > 0
           /\ IF shared = {} \/ ~NonZeroOn(v1, shared) \/ ~NonZeroOn(v2, shared)
              THEN r.similarity = Ratio(0, 1)
              ELSE r.similarity =
                      Ratio(DotOver(v1, v2, shared),
                            DotOver(v1, v1, shared) * DotOver(v2, v2, shared))

C18_Witness ==
    /\ Compared
    /\ response.vector1 = [feature_0 |-> Num(1), feature_1 |-> Num(2)]
    /\ response.vector2 = [feature_1 |-> Num(2), feature_2 |-> Num(2)]
    /\ response.result = Returned(Ratio(4, 16))

\* ---------------------------------------------------------------------
\* C19, C20: two sub-scores of the match score (Spec)
\* ---------------------------------------------------------------------

InRange(age, range) == range[1] <= age /\ age <= range[2]

\* C19: the preference-alignment sub-score is 0.6 when each user's age is
\* in the other's range, 0.3 when exactly one is, 0 when neither is, plus a
\* flat 0.4, capped at 1.0: it is 1.0, 0.7 or 0.4 and nothing else.
C19_PreferenceAlignment ==
    Scored =>
        LET preference == _calculate_preference_alignment(Vector1, Vector2)
            match_1 == InRange(Vector2.demographics.age, Vector1.preferences.age_range)
            match_2 == InRange(Vector1.demographics.age, Vector2.preferences.age_range)
        IN /\ preference.score \in {Rat(4, 10), Rat(7, 10), One}
           /\ (match_1 /\ match_2) => preference.score = One
           /\ (match_1 # match_2) => preference.score = Rat(7, 10)
           /\ (~match_1 /\ ~match_2) => preference.score = Rat(4, 10)
           /\ Len(preference.reasons) = 1
           /\ response.result.reasons[1] = preference.reasons[1]

\* user aged 30 accepting 25..35 scored with a candidate aged 32 accepting
\* 28..40: the sub-score is 1.0
C19_Witness ==
    /\ Scored
    /\ Vector1.demographics.age = 30
    /\ Vector1.preferences.age_range = <<25, 35>>
    /\ Vector2.demographics.age = 32
    /\ Vector2.preferences.age_range = <<28, 40>>
    /\ _calculate_preference_alignment(Vector1, Vector2).score = One

\* C20: the interest sub-score is |A cap B| / |A cup B| when both interest
\* sets are non-empty; when either is empty it is 0.5 and the only reason
\* given is "Limited interest data available".
C20_InterestJaccard ==
    Scored =>
        LET interest == _calculate_interest_similarity(Vector1, Vector2)
            A == Vector1.interests
            B == Vector2.interests
        IN /\ (A # {} /\ B # {}) =>
                 /\ interest.score.num * Cardinality(A \cup B)
                       = Cardinality(A \cap B) * interest.score.den
                 /\ interest.score.den > 0
           /\ (A = {} \/ B = {}) =>
                 /\ interest.score = Rat(1, 2)
                 /\ interest.reasons = <<Reason("Limited interest data available")>>
           /\ Len(interest.reasons) = 1
           /\ response.result.reasons[2] = interest.reasons[1]

\* interests {a, b} scored with {b, c}: 1/3
C20_Witness ==
    /\ Scored
    /\ Vector1.interests = {"a", "b"}
    /\ Vector2.interests = {"b", "c"}
    /\ _calculate_interest_similarity(Vector1, Vector2).score.num = 1
    /\ _calculate_interest_similarity(Vector1, Vector2).score.den = 3

\* ---------------------------------------------------------------------
\* C21, C22: values and behavioral sub-scores (Spec)
\* ---------------------------------------------------------------------

MaxCard(A, B) == IF Cardinality(A) >= Cardinality(B) THEN Cardinality(A) ELSE Cardinality(B)

\* C21: the values sub-score is |A cap B| / max(|A|, |B|) when both value
\* sets are non-empty and 0.5 when either is empty; it lies in [0,1] and is
\* 1 only when the two sets are equal.
C21_ValuesOverlap ==
    Scored =>
        LET compatibility == _calculate_values_compatibility(Vector1, Vector2)
            A == Vector1.values
            B == Vector2.values
        IN /\ (A # {} /\ B # {}) =>
                 /\ compatibility.score.den > 0
                 /\ compatibility.score.num * MaxCard(A, B)
                       = Cardinality(A \cap B) * compatibility.score.den
           /\ (A = {} \/ B = {}) => compatibility.score = Rat(1, 2)
           /\ RLe(Zero, compatibility.score)
           /\ RLe(compatibility.score, One)
           /\ compatibility.score = One => A = B

\* values {x} scored with {x, y}: 1/2, the sets differing
C21_Witness ==
    /\ Scored
    /\ Vector1.values = {"x"}
    /\ Vector2.values = {"x", "y"}
    /\ _calculate_values_compatibility(Vector1, Vector2).score.num = 1
    /\ _calculate_values_compatibility(Vector1, Vector2).score.den = 2
    /\ response.result.reasons[3] = ReasonWith("Shared values: ", {"x"})

C23_LatencyCapped ==
    Built =>
        LET latencies == _calculate_reply_latencies(users[response.user])
            average == response.result.vector.behavioral_signals.reply_latency_avg
        IN /\ \A i \in 1..Len(latencies) : latencies[i] <= 1440
           /\ RLe(average, RInt(1440))
           /\ latencies = <<>> => average = RInt(300)
           /\ latencies # <<>> =>
                 average.num * Len(latencies) = SumSeq(latencies) * average.den

\* two messages 2000 minutes apart: the one observation is 1440
C23_Witness ==
    /\ Built
    /\ Len(users[response.user].matches) = 1
    /\ users[response.user].matches[1].messages =
          <<[mine |-> FALSE, at |-> 10], [mine |-> FALSE, at |-> 2010]>>
    /\ _calculate_reply_latencies(users[response.user]) = <<1440>>
    /\ response.result.vector.behavioral_signals.reply_latency_avg = RInt(1440)

\* the observations of one conversation as C24 states them: own_time is the
\* time of the latest message the user sent so far (0: none yet)
RECURSIVE RepliesToUser(_, _, _)
RepliesToUser(msgs, own_time, latencies) ==
    IF msgs = <<>> THEN latencies
    ELSE LET msg == Head(msgs)
         IN IF msg.mine
            THEN RepliesToUser(Tail(msgs), msg.at, latencies)
            ELSE RepliesToUser(Tail(msgs), own_time,
                     IF own_time # 0
                     THEN Append(latencies,
                              IF msg.at - own_time < 1440
                              THEN msg.at - own_time ELSE 1440)
                     ELSE latencies)

RECURSIVE RepliesFrom(_, _)
RepliesFrom(user, i) ==
    IF i > Len(user.matches) THEN <<>>
    ELSE (IF user.matches[i].has_conversation
          THEN RepliesToUser(user.matches[i].messages, 0, <<>>)
          ELSE <<>>) \o RepliesFrom(user, i + 1)

\* C24: in each conversation of the user, a latency is recorded exactly when
\* the other party sends a message after an earlier message of the user,
\* its value the time since that message of the user; a message of the
\* other party that follows no message of the user records nothing.
C24_RepliesToUserOnly ==
    Built =>
        _calculate_reply_latencies(users[response.user])
            = RepliesFrom(users[response.user], 1)

\* ---------------------------------------------------------------------
\* C25: trust score and trust/safety sub-score (SpecPair)
\* ---------------------------------------------------------------------

ClaimedTrust(user) ==
    RAdd(Rat(5, 10),
         RAdd(IF user.is_verified THEN Rat(2, 10) ELSE Zero,
              IF user.has_primary_photo THEN Rat(1, 10) ELSE Zero))

HasCoordinates(latitude, longitude) == latitude # None /\ longitude # None

\* the geographic filter as C26 states it
GeoKept(c) ==
    LET me == profiles[Requester]
        lat == IF me.is_passport_enabled THEN me.passport_latitude ELSE me.latitude
        lon == IF me.is_passport_enabled THEN me.passport_longitude ELSE me.longitude
    IN IF HasCoordinates(lat, lon)
          /\ HasCoordinates(profiles[c].latitude, profiles[c].longitude)
       THEN RLe(haversine_distance(lat[1], lon[1],
                                   profiles[c].latitude[1], profiles[c].longitude[1]),
                RInt(me.max_distance))
       ELSE IF me.country # "" THEN profiles[c].country = me.country
       ELSE TRUE

\* C26: the requester's effective coordinates are the passport coordinates
\* when passport is enabled, else the actual location; a candidate is kept
\* by distance (at most max_distance) when both sides have coordinates, by
\* same country when either side lacks them, and always when the requester
\* has no country either.
C26_GeoFilter ==
    Listed =>
        Range(response.list) = {c \in active_profiles : GeoKept(c)}

\* ---------------------------------------------------------------------
\* C27: match suggestions (SpecEvents)
\* ---------------------------------------------------------------------

\* C27: processing a MatchSuggestionRequested event of an existing user
\* publishes a MatchSuggestionsGenerated event for that user (its
\* suggestions scored above 0.6, sorted by score, at most 10, each with the
\* first 3 reasons).
C27_SuggestionsPublished ==
    (Processed /\ response.event.event_type = "MatchSuggestionRequested"
        /\ response.event.actor_id \in UserIds) =>
        /\ response.logged = "none"
        /\ \E i \in 1..Len(stream) :
              /\ stream[i].event_type = "MatchSuggestionsGenerated"
              /\ stream[i].actor_id = response.event.actor_id

\* ---------------------------------------------------------------------
\* C28, C29: matches and swipes (SpecSwipe)
\* ---------------------------------------------------------------------

Quiet == InFlight = {}

ActiveMatches == {i \in DOMAIN match_rows : match_rows[i].is_active}

Liked(a, b) == <<a, b>> \in swipes /\ swipe_action[<<a, b>>] \in Likes

\* C28: when no request is in progress, every active Match between two
\* users is backed by a like or super_like swipe in each direction.
C28_MatchIsMutualLike ==
    Quiet =>
        \A i \in ActiveMatches :
            /\ Liked(match_rows[i].user1, match_rows[i].user2)
            /\ Liked(match_rows[i].user2, match_rows[i].user1)

\* C29: there is at most one active Match per unordered pair of users, and
\* no create request fails at the creation of the Match.
C29_OneActiveMatch ==
    /\ \A i, j \in ActiveMatches :
          Between(match_rows[i], match_rows[j].user1, match_rows[j].user2) => i = j
    /\ \A r \in 1..MaxRequests :
          ~(requests[r].pc = "failed" /\ requests[r].at = "Match")

\* ---------------------------------------------------------------------
\* C30: the reasons of a match score (SpecPair)
\* ---------------------------------------------------------------------

\* C30: calculate_match_score returns exactly 7 reasons, the first three
\* being the preference, interest and values reasons; the trust/safety
\* sub-score is at most 0.8, and the reason "Both users have high trust
\* scores" is never among them.
C30_SevenReasons ==
    Scored =>
        LET reasons == response.result.reasons
            scores == ComponentResults(Vector1, Vector2)
        IN /\ Len(reasons) = 7
           /\ SubSeq(reasons, 1, 3)
                 = scores.preference_alignment.reasons
                      \o scores.interest_similarity.reasons
                      \o scores.values_compatibility.reasons
           /\ Len(scores.behavioral_compatibility.reasons) = 2
           /\ RLe(scores.trust_safety_score.score, Rat(8, 10))
           /\ \A i \in 1..Len(reasons) :
                 reasons[i].text # "Both users have high trust scores"

\* both users verified and with a primary photo: the sub-score is 0.8 and
\* the reason is the "good" one
C30_Witness ==
    /\ Scored
    /\ Vector1.trust_score = Rat(8, 10)
    /\ Vector2.trust_score = Rat(8, 10)
    /\ Len(response.result.reasons) = 7
    /\ response.result.reasons[6] = Reason("Both users have good trust scores")

====
